---- MODULE Spec2Model ----
(***************************************************************************)
(* The two components of src/components/interview/ResumeUpload.tsx:        *)
(* ResumeUpload (file check, extraction call, submit) and                  *)
(* TechnicalInterview (question retrieval, the dual-transport speech       *)
(* capture by native recognizer or MediaRecorder + WebSocket relay, and    *)
(* the answer progression).                                                *)
(*                                                                         *)
(* Strings are sequences of one-character strings, so that trim and        *)
(* concatenation are computed as JavaScript computes them.  React state is *)
(* read by a handler as of the latest render; the component re-renders     *)
(* between two events of the browser's event loop.                         *)
(***************************************************************************)
EXTENDS Integers, Sequences, FiniteSets, TLC

(* ------------------------------ bounds -------------------------------- *)
MaxQuestions == 1      \* longest question list the backend returns in Spec
MaxAnswers == 1        \* handleNext is not taken beyond this many answers
MaxRec == 2            \* recognizer instances created in one behaviour
MaxWs == 1             \* socket-relay start attempts in one behaviour
MaxChunks == 0         \* audio chunks forwarded in one behaviour
MaxEvents == 1         \* recognizer result events in one behaviour
MaxRetreats == 0       \* handlePrevious steps that move the index back
MaxReruns == 1         \* re-runs of the question-retrieval effect
MaxUploads == 2        \* extraction calls in one behaviour

(* ------------------------- program constants -------------------------- *)
COUNT_ROLE == 7
NULL == 0

VARIABLES
  recognitionCtor,         \* window.(webkit)SpeechRecognition is present
  isSecureContextOk,
  fetchQs,                 \* request of an effect run -> state of its await
  cancelled,               \* request of an effect run -> its cancelled flag
  mounted,                 \* the component instance is mounted
  questions, isLoading,
  currentQuestionIndex, answers, currentAnswer, isRecording, answeredOnce,
  transcript, interim,
  recognitionInstanceRef, mediaRecorderRef, wsRef, isUsingWsRef,
  recs,                    \* recognizer instance -> engine state
  mic,                     \* relay attempt -> getUserMedia / stream state
  mr,                      \* relay attempt -> MediaRecorder state
  ws,                      \* relay attempt -> WebSocket state
  wsSent,                  \* relay attempt -> send() calls on its socket
  toast,                   \* title of the toast of the last handler
  lastOp,                  \* the user's handler that ran last, "fetchQs
                           \* catch", or "event" for another callback
  onNextCount,             \* calls of the onNext prop
  onNextLength,            \* length of the sequence of the last call
  startedAt, restartedAt,  \* indices where a recording started / started
                           \* once more (Idle -> Recording)
  stoppedAt, restoppedAt,  \* indices where stopSTT ran / ran once more
  sessFinals, sessInterim, \* final fragments of the current recognizer, and
                           \* the non-final fragments of its latest event
  nEvents, nRetreats,
  resumeFile, resumeContent, isProcessing, sessionId,   \* ResumeUpload
  extracts,                \* extraction call (by its identifier) -> state
  before,                  \* extraction call -> <<resumeFile, sessionId,
                           \* resumeContent>> when its upload began
  lastFile,                \* the file of the last handleFileUpload call
  submitted,               \* the arguments of the onNext calls of ResumeUpload
  recAt, wsAt,             \* capture session -> index at which it was started
                           \* (-1 while it delivers no events: before its
                           \* start, after its end)
  transcriptFrom,          \* start indices of the sessions whose text is in
  interimFrom              \* transcript / in interim

env == <<recognitionCtor, isSecureContextOk>>
effect == <<fetchQs, cancelled, mounted>>
uploadState == <<resumeFile, resumeContent, isProcessing, sessionId>>
upload == <<uploadState, extracts, before, lastFile, submitted>>
react == <<questions, isLoading, currentQuestionIndex, answers, currentAnswer,
           isRecording, answeredOnce, transcript, interim>>
refs == <<recognitionInstanceRef, mediaRecorderRef, wsRef, isUsingWsRef>>
engines == <<recs, mic, mr, ws, wsSent>>
calls == <<onNextCount, onNextLength>>
starts == <<startedAt, restartedAt>>
stops == <<stoppedAt, restoppedAt>>
origin == <<recAt, wsAt, transcriptFrom, interimFrom>>
history == <<calls, starts, stops, sessFinals, sessInterim,
             nEvents, nRetreats>>
vars == <<env, upload, effect, react, refs, engines, toast, lastOp, history,
          origin>>

(* ------------------------------ strings ------------------------------- *)
RECURSIVE trimStart(_)
trimStart(s) ==
  IF s # <<>> /\ Head(s) = " " THEN trimStart(Tail(s)) ELSE s

RECURSIVE trimEnd(_)
trimEnd(s) ==
  IF s # <<>> /\ s[Len(s)] = " " THEN trimEnd(SubSeq(s, 1, Len(s) - 1)) ELSE s

trim(s) == trimEnd(trimStart(s))

Str(c) == <<c>>
EMPTY == <<>>

(* (transcript + (interim ? (transcript ? " " : "") + interim : "")).trim() *)
finalAnswer(t, i) ==
  trim(t \o (IF i # EMPTY
               THEN (IF t # EMPTY THEN Str(" ") ELSE EMPTY) \o i
               ELSE EMPTY))

(* ---------------------------- small helpers --------------------------- *)
QuestionNames == <<"Q0", "Q1", "Q2", "Q3", "Q4", "Q5", "Q6", "Q7", "Q8", "Q9">>

QuestionList(n) == SubSeq(QuestionNames, 1, n)

\* questions[i] of a JavaScript array: undefined outside the array
QuestionAt(i) ==
  IF i + 1 \in DOMAIN questions THEN questions[i + 1] ELSE "undefined"

\* answers[i]?.answer || ""
AnswerAt(i) ==
  IF i + 1 \in DOMAIN answers THEN answers[i + 1].answer ELSE EMPTY

FetchIds == 1..(MaxReruns + 1)
ExtractIds == 1..MaxUploads

\* useState<File | null>(null): no file
NoFile == [name |-> "", type |-> EMPTY]
RecIds == DOMAIN recs
WsIds == DOMAIN mic

Created(f) == {k \in DOMAIN f : f[k] # "none"}
NextId(f) == Cardinality(Created(f)) + 1

ErrorToasts ==
  {"Insecure context", "Failed to start STT", "Failed to start recording",
   "Recording failed", "Speech recognition error"}

(* ------------------------------- Init --------------------------------- *)
\* the state after mount, in a behaviour that creates at most nRec
\* recognizers and makes at most nWs relay attempts
InitWith(nRec, nWs) ==
  /\ recognitionCtor \in BOOLEAN
  /\ isSecureContextOk \in BOOLEAN
  /\ fetchQs = [q \in FetchIds |-> IF q = 1 THEN "awaiting" ELSE "none"]
  /\ cancelled = [q \in FetchIds |-> FALSE]
  /\ mounted = TRUE
  /\ questions = <<>>
  /\ isLoading = TRUE
  /\ currentQuestionIndex = 0
  /\ answers = <<>>
  /\ currentAnswer = EMPTY
  /\ isRecording = FALSE
  /\ answeredOnce = {}
  /\ transcript = EMPTY
  /\ interim = EMPTY
  /\ recognitionInstanceRef = NULL
  /\ mediaRecorderRef = NULL
  /\ wsRef = NULL
  /\ isUsingWsRef = FALSE
  /\ recs = [r \in 1..nRec |-> "none"]
  /\ mic = [s \in 1..nWs |-> "none"]
  /\ mr = [s \in 1..nWs |-> "none"]
  /\ ws = [s \in 1..nWs |-> "none"]
  /\ wsSent = [s \in 1..nWs |-> <<>>]
  /\ toast = "none"
  /\ lastOp = "mount"
  /\ onNextCount = 0
  /\ onNextLength = 0
  /\ startedAt = {}
  /\ restartedAt = {}
  /\ stoppedAt = {}
  /\ restoppedAt = {}
  /\ sessFinals = <<>>
  /\ sessInterim = <<>>
  /\ nEvents = 0
  /\ nRetreats = 0
  /\ recAt = [r \in 1..nRec |-> -1]
  /\ wsAt = [s \in 1..nWs |-> -1]
  /\ transcriptFrom = {}
  /\ interimFrom = {}
  /\ resumeFile = NoFile
  /\ resumeContent = EMPTY
  /\ isProcessing = FALSE
  /\ sessionId = EMPTY
  /\ extracts = [id \in ExtractIds |-> "none"]
  /\ before = [id \in ExtractIds |-> <<NoFile, EMPTY, EMPTY>>]
  /\ lastFile = NoFile
  /\ submitted = {}

Init == InitWith(MaxRec, MaxWs)

(* ------------------------------ ResumeUpload -------------------------- *)
\* String.prototype.includes
includes(s, sub) ==
  \E i \in 0..(Len(s) - Len(sub)) : SubSeq(s, i + 1, i + Len(sub)) = sub

PDF == <<"p", "d", "f">>

\* file.type of the files the user picks
FileTypes ==
  {EMPTY, PDF, <<"a", "/">> \o PDF, <<"p", "d">>, <<"P", "D", "F">>,
   <<"p", "d", "x", "f">>}

Files == [name : {"cv"}, type : FileTypes]

\* the test of handleFileUpload that lets any non-empty type through
isPdf_AnyType(file) == file.type # EMPTY

\* !(!file.type || !file.type.includes("pdf"))
isPdf(file) == file.type # EMPTY /\ includes(file.type, PDF)

\* `Indexed ${result.chunks_indexed} chunks for session ${id}`
statusText(chunks, id) == <<"Indexed ", chunks, " chunks for session ", id>>

ChunkCounts == {0, 1}

\* handleFileUpload up to its await; generateUUID gives a fresh identifier
handleFileUpload(file) ==
  /\ lastFile' = file
  /\ lastOp' = "handleFileUpload"
  /\ IF ~isPdf(file)
       THEN /\ toast' = "Invalid file type"
            /\ UNCHANGED <<uploadState, extracts, before>>
       ELSE LET id == NextId(extracts)
            IN /\ id \in ExtractIds
               /\ resumeFile' = file
               /\ isProcessing' = TRUE
               /\ sessionId' = <<id>>
               /\ extracts' = [extracts EXCEPT ![id] = "pending"]
               /\ before' = [before EXCEPT
                               ![id] = <<resumeFile, sessionId, resumeContent>>]
               /\ toast' = "none"
               /\ UNCHANGED resumeContent
  /\ UNCHANGED <<env, effect, react, refs, engines, history, origin, submitted>>

\* uploadResumeExtract(id, file) resolved: the rest of the try, the finally
ExtractResolved(id, chunks) ==
  /\ extracts[id] = "pending"
  /\ extracts' = [extracts EXCEPT ![id] = "ok"]
  /\ resumeContent' = statusText(chunks, id)
  /\ isProcessing' = FALSE
  /\ toast' = "Resume processed successfully"
  /\ lastOp' = "event"
  /\ UNCHANGED <<env, effect, react, refs, engines, history, origin,
                 resumeFile, sessionId, before, lastFile, submitted>>

\* uploadResumeExtract(id, file) rejected: the catch, the finally
ExtractRejected(id) ==
  /\ extracts[id] = "pending"
  /\ extracts' = [extracts EXCEPT ![id] = "failed"]
  /\ isProcessing' = FALSE
  /\ toast' = "Error processing resume"
  /\ lastOp' = "event"
  /\ UNCHANGED <<env, effect, react, refs, engines, history, origin,
                 resumeFile, resumeContent, sessionId, before, lastFile,
                 submitted>>

\* disabled={isProcessing || !resumeContent} of the submit button
submitDisabled == isProcessing \/ resumeContent = EMPTY

\* handleSubmit without the test of resumeContent
handleSubmit_NoCheck ==
  /\ lastOp' = "handleSubmit"
  /\ submitted' = submitted \cup
                    {[resumeContent |-> resumeContent, sessionId |-> sessionId]}
  /\ toast' = "none"
  /\ UNCHANGED <<env, effect, react, refs, engines, history, origin,
                 uploadState, extracts, before, lastFile>>

handleSubmit ==
  /\ lastOp' = "handleSubmit"
  /\ IF resumeContent = EMPTY
       THEN /\ toast' = "Resume required"
            /\ UNCHANGED submitted
       ELSE /\ submitted' = submitted \cup
                    {[resumeContent |-> resumeContent, sessionId |-> sessionId]}
            /\ toast' = "none"
  /\ UNCHANGED <<env, effect, react, refs, engines, history, origin,
                 uploadState, extracts, before, lastFile>>

(* ------------------------- question retrieval ------------------------- *)
\* fetchQs of effect run q that sets its state whatever its cancelled flag
FetchResolved_IgnoresCancelled(q, n) ==
  /\ fetchQs[q] = "awaiting"
  /\ fetchQs' = [fetchQs EXCEPT ![q] = "returned"]
  /\ questions' = QuestionList(n)
  /\ isLoading' = FALSE
  /\ toast' = "none"
  /\ lastOp' = "event"
  /\ UNCHANGED <<env, upload, origin, cancelled, mounted, currentQuestionIndex, answers,
                 currentAnswer, isRecording, answeredOnce, transcript,
                 interim, refs, engines, history>>

\* fetchQs of effect run q, the await resolved:
\* if (!cancelled) setQuestions(resp.questions || []), then the finally
FetchResolved(q, n) ==
  /\ fetchQs[q] = "awaiting"
  /\ fetchQs' = [fetchQs EXCEPT ![q] = "returned"]
  /\ questions' = IF cancelled[q] THEN questions ELSE QuestionList(n)
  /\ isLoading' = IF cancelled[q] THEN isLoading ELSE FALSE
  /\ toast' = "none"
  /\ lastOp' = "event"
  /\ UNCHANGED <<env, upload, origin, cancelled, mounted, currentQuestionIndex, answers,
                 currentAnswer, isRecording, answeredOnce, transcript,
                 interim, refs, engines, history>>

\* fetchQs of effect run q, the await rejected:
\* if (!cancelled) setQuestions([]), then the finally
FetchRejected(q) ==
  /\ fetchQs[q] = "awaiting"
  /\ fetchQs' = [fetchQs EXCEPT ![q] = "returned"]
  /\ questions' = IF cancelled[q] THEN questions ELSE <<>>
  /\ isLoading' = IF cancelled[q] THEN isLoading ELSE FALSE
  /\ toast' = "none"
  /\ lastOp' = "fetchQs catch"
  /\ UNCHANGED <<env, upload, origin, cancelled, mounted, currentQuestionIndex, answers,
                 currentAnswer, isRecording, answeredOnce, transcript,
                 interim, refs, engines, history>>

\* the effect run whose closure is the current one
currentRun == Cardinality(Created(fetchQs))

\* a dependency changed (or React re-ran the effect): the clean-up of the
\* current run sets its cancelled flag, and the effect calls fetchQs again
EffectRerun ==
  /\ mounted
  /\ NextId(fetchQs) \in FetchIds
  /\ cancelled' = [cancelled EXCEPT ![currentRun] = TRUE]
  /\ fetchQs' = [fetchQs EXCEPT ![NextId(fetchQs)] = "awaiting"]
  /\ toast' = "none"
  /\ lastOp' = "event"
  /\ UNCHANGED <<env, upload, origin, mounted, react, refs, engines, history>>

\* the component is unmounted: the clean-up of the current run
Unmount ==
  /\ mounted
  /\ mounted' = FALSE
  /\ cancelled' = [cancelled EXCEPT ![currentRun] = TRUE]
  /\ toast' = "none"
  /\ lastOp' = "event"
  /\ UNCHANGED <<env, upload, origin, fetchQs, react, refs, engines, history>>

(* ------------------ native recognition (startSTT) --------------------- *)
Fragments == {Str("a"), Str(" ")}
MaxResultsPerEvent == 2

\* event.results from event.resultIndex on: [isFinal, transcript] each
ResultEvents ==
  UNION {[1..n -> [isFinal : BOOLEAN, transcript : Fragments]] :
           n \in 1..MaxResultsPerEvent}

SingleResultEvents == {e \in ResultEvents : Len(e) = 1}

\* the loop of rec.onresult: finalText (final = TRUE) or interimText
RECURSIVE resultText(_, _)
resultText(results, final) ==
  IF results = <<>> THEN EMPTY
  ELSE (IF Head(results).isFinal = final THEN Head(results).transcript
        ELSE EMPTY) \o resultText(Tail(results), final)

\* setTranscript(prev => (prev ? prev + " " : "") + finalText.trim())
onresultTranscript(prev, results) ==
  LET finalText == resultText(results, TRUE)
  IN IF finalText # EMPTY
       THEN (IF prev # EMPTY THEN prev \o Str(" ") ELSE EMPTY) \o trim(finalText)
       ELSE prev

\* setInterim(interimText.trim())
onresultInterim(results) == trim(resultText(results, FALSE))

\* recognitionInstanceRef.current.stop(): a running engine starts to end
recStopped(f, r) ==
  IF r # NULL /\ f[r] = "running" THEN [f EXCEPT ![r] = "stopping"] ELSE f

\* startSTT from "if (recognitionInstanceRef.current)" on
startNative ==
  LET r == NextId(recs)
  IN /\ r \in RecIds
     /\ recs' = [recStopped(recs, recognitionInstanceRef) EXCEPT ![r] = "running"]
     /\ recognitionInstanceRef' = r
     /\ transcript' = EMPTY
     /\ interim' = EMPTY
     /\ isRecording' = TRUE
     /\ toast' = "Recording started"
     /\ startedAt' = IF isRecording THEN startedAt
                     ELSE startedAt \cup {currentQuestionIndex}
     /\ restartedAt' = IF isRecording THEN restartedAt
                       ELSE restartedAt \cup (startedAt \cap {currentQuestionIndex})
     /\ sessFinals' = <<>>
     /\ sessInterim' = <<>>
     /\ recAt' = [recAt EXCEPT ![r] = currentQuestionIndex]
     /\ transcriptFrom' = {}
     /\ interimFrom' = {}
     /\ UNCHANGED <<env, upload, wsAt, effect, questions, isLoading, currentQuestionIndex, answers,
                    currentAnswer, answeredOnce, mediaRecorderRef, wsRef,
                    isUsingWsRef, mic, mr, ws, wsSent,
                    calls, stops, nEvents, nRetreats>>

RECURSIVE fragmentsOf(_, _)
fragmentsOf(results, final) ==
  IF results = <<>> THEN <<>>
  ELSE (IF Head(results).isFinal = final THEN <<Head(results).transcript>>
        ELSE <<>>) \o fragmentsOf(Tail(results), final)

\* rec.onresult of instance r, while fewer than cap events were delivered
RecOnResultUpTo(r, results, cap) ==
  /\ recs[r] \in {"running", "stopping"}
  /\ nEvents < cap
  /\ transcript' = onresultTranscript(transcript, results)
  /\ interim' = onresultInterim(results)
  /\ nEvents' = nEvents + 1
  /\ sessFinals' = IF r = recognitionInstanceRef
                     THEN sessFinals \o fragmentsOf(results, TRUE)
                     ELSE sessFinals
  /\ sessInterim' = IF r = recognitionInstanceRef
                      THEN fragmentsOf(results, FALSE)
                      ELSE sessInterim
  /\ transcriptFrom' = IF transcript' # transcript
                         THEN transcriptFrom \cup {recAt[r]}
                         ELSE transcriptFrom
  /\ interimFrom' = IF interim' # EMPTY THEN {recAt[r]} ELSE {}
  /\ toast' = "none"
  /\ lastOp' = "event"
  /\ UNCHANGED <<env, upload, recAt, wsAt, effect, questions, isLoading,
                 currentQuestionIndex, answers,
                 currentAnswer, isRecording, answeredOnce, refs, engines,
                 calls, starts, stops, nRetreats>>

RecOnResult(r, results) == RecOnResultUpTo(r, results, MaxEvents)

\* rec.onerror of instance r; the engine ends after an error
RecOnError(r) ==
  /\ recs[r] = "running"
  /\ recs' = [recs EXCEPT ![r] = "stopping"]
  /\ isRecording' = FALSE
  /\ toast' = "Speech recognition error"
  /\ lastOp' = "event"
  /\ UNCHANGED <<env, upload, effect, origin, questions, isLoading, currentQuestionIndex, answers,
                 currentAnswer, answeredOnce, transcript, interim, refs,
                 mic, mr, ws, wsSent, history>>

\* rec.onend of instance r: after stop(), an error, or silence
RecOnEnd(r) ==
  /\ recs[r] \in {"running", "stopping"}
  /\ recs' = [recs EXCEPT ![r] = "ended"]
  /\ recAt' = [recAt EXCEPT ![r] = -1]
  /\ isRecording' = FALSE
  /\ toast' = "none"
  /\ lastOp' = "event"
  /\ UNCHANGED <<env, upload, effect, wsAt, transcriptFrom, interimFrom, questions, isLoading, currentQuestionIndex, answers,
                 currentAnswer, answeredOnce, transcript, interim, refs,
                 mic, mr, ws, wsSent, history>>

(* ------------- socket relay (startWSRecorder, stopWSRecorder) --------- *)
\* ev.data of ws.onmessage: a text frame or a binary frame
WsFrames == {[isString |-> TRUE, data |-> Str("a")],
             [isString |-> FALSE, data |-> Str("a")]}

ChunkSizes == {0, 1}

Chunks(log) == {k \in DOMAIN log : log[k].data = "chunk"}

RECURSIVE chunksSent(_)
chunksSent(S) ==
  IF S = {} THEN 0
  ELSE LET s == CHOOSE x \in S : TRUE
       IN Cardinality(Chunks(wsSent[s])) + chunksSent(S \ {s})

\* startWSRecorder up to its await: a new attempt asks for the microphone
startWSRecorder ==
  IF isUsingWsRef
    THEN /\ toast' = "none"
         /\ UNCHANGED <<env, upload, effect, origin, react, refs, engines, history>>
    ELSE LET s == NextId(mic)
         IN /\ s \in WsIds
            /\ mic' = [mic EXCEPT ![s] = "asking"]
            /\ wsAt' = [wsAt EXCEPT ![s] = currentQuestionIndex]
            /\ toast' = "none"
            /\ UNCHANGED <<env, upload, recAt, transcriptFrom, interimFrom, effect, react, refs, recs, mr, ws,
                           wsSent, history>>

StartOutcomes == {"ok", "MediaRecorder throws", "WebSocket throws"}

\* startWSRecorder after getUserMedia resolved, up to the handlers' set-up
GetUserMediaResolved(s, outcome) ==
  /\ mic[s] = "asking"
  /\ outcome \in StartOutcomes
  /\ mic' = [mic EXCEPT ![s] = "live"]
  /\ mr' = [mr EXCEPT ![s] = IF outcome = "MediaRecorder throws"
                               THEN "threw" ELSE "inactive"]
  /\ mediaRecorderRef' = IF outcome = "MediaRecorder throws"
                           THEN mediaRecorderRef ELSE s
  /\ ws' = [ws EXCEPT ![s] = CASE outcome = "ok" -> "connecting"
                               [] outcome = "WebSocket throws" -> "threw"
                               [] OTHER -> "none"]
  /\ wsRef' = IF outcome = "ok" THEN s ELSE wsRef
  /\ toast' = IF outcome = "ok" THEN "none" ELSE "Failed to start recording"
  /\ lastOp' = "event"
  /\ UNCHANGED <<env, upload, effect, origin, react, recognitionInstanceRef, isUsingWsRef, recs,
                 wsSent, calls, starts, stops, sessFinals,
                 sessInterim, nEvents, nRetreats>>

\* startWSRecorder, getUserMedia rejected: the catch block
GetUserMediaRejected(s) ==
  /\ mic[s] = "asking"
  /\ mic' = [mic EXCEPT ![s] = "denied"]
  /\ toast' = "Failed to start recording"
  /\ lastOp' = "event"
  /\ UNCHANGED <<env, upload, effect, origin, react, refs, recs, mr, ws, wsSent,
                 calls, starts, stops, sessFinals, sessInterim, nEvents, nRetreats>>

\* ws.onopen of attempt s
WsOnOpen(s) ==
  /\ ws[s] = "connecting"
  /\ ws' = [ws EXCEPT ![s] = "open"]
  /\ mr' = [mr EXCEPT ![s] = IF mr[s] = "inactive" THEN "recording" ELSE mr[s]]
  /\ isRecording' = TRUE
  /\ isUsingWsRef' = TRUE
  /\ toast' = "Recording started"
  /\ lastOp' = "event"
  /\ startedAt' = IF isRecording THEN startedAt
                  ELSE startedAt \cup {currentQuestionIndex}
  /\ restartedAt' = IF isRecording THEN restartedAt
                    ELSE restartedAt \cup (startedAt \cap {currentQuestionIndex})
  /\ UNCHANGED <<env, upload, effect, origin, questions, isLoading, currentQuestionIndex, answers,
                 currentAnswer, answeredOnce, transcript, interim,
                 recognitionInstanceRef, mediaRecorderRef, wsRef, recs, mic,
                 wsSent, calls, stops, sessFinals,
                 sessInterim, nEvents, nRetreats>>

\* ws.onmessage of attempt s: frames arrive, any number of them, until the
\* socket is closed
WsOnMessage(s, frame) ==
  /\ ws[s] \in {"open", "closing"}
  /\ transcript' = IF frame.isString THEN frame.data ELSE EMPTY
  /\ transcriptFrom' = IF transcript' # EMPTY THEN {wsAt[s]} ELSE {}
  /\ isRecording' = FALSE
  /\ isUsingWsRef' = FALSE
  /\ toast' = "none"
  /\ lastOp' = "event"
  /\ UNCHANGED <<env, upload, recAt, wsAt, interimFrom, effect, questions, isLoading, currentQuestionIndex, answers,
                 currentAnswer, answeredOnce, interim, recognitionInstanceRef,
                 mediaRecorderRef, wsRef, recs, mic, mr, ws, wsSent, history>>

\* ws.onclose of attempt s: the connection failed, or was closed
WsOnClose(s) ==
  /\ ws[s] \in {"connecting", "open", "closing"}
  /\ ws' = [ws EXCEPT ![s] = IF ws[s] = "connecting" THEN "failed" ELSE "closed"]
  /\ wsAt' = [wsAt EXCEPT ![s] = -1]
  /\ isRecording' = FALSE
  /\ isUsingWsRef' = FALSE
  /\ toast' = "none"
  /\ lastOp' = "event"
  /\ UNCHANGED <<env, upload, effect, recAt, transcriptFrom, interimFrom, questions, isLoading, currentQuestionIndex, answers,
                 currentAnswer, answeredOnce, transcript, interim,
                 recognitionInstanceRef, mediaRecorderRef, wsRef, recs, mic,
                 mr, wsSent, history>>

\* the condition of mr.ondataavailable
chunkIsSent(size, readyState) == size > 0 /\ readyState = "open"

\* mr.ondataavailable of attempt s: every second, and once more after stop
MrOnDataAvailable(s, size) ==
  /\ mr[s] \in {"recording", "flushing"}
  /\ mr[s] = "recording" => chunksSent(WsIds) < MaxChunks
  /\ mr' = [mr EXCEPT ![s] = IF mr[s] = "flushing" THEN "stopped" ELSE mr[s]]
  /\ wsSent' = IF chunkIsSent(size, ws[s])
                 THEN [wsSent EXCEPT ![s] =
                         Append(@, [data |-> "chunk", readyState |-> ws[s]])]
                 ELSE wsSent
  /\ toast' = "none"
  /\ lastOp' = "event"
  /\ UNCHANGED <<env, upload, effect, origin, react, refs, recs, mic, ws, history>>

\* mr.onerror of attempt s; the recorder stops after an error
MrOnError(s) ==
  /\ mr[s] = "recording"
  /\ mr' = [mr EXCEPT ![s] = "flushing"]
  /\ isRecording' = FALSE
  /\ toast' = "Recording failed"
  /\ lastOp' = "event"
  /\ UNCHANGED <<env, upload, effect, origin, questions, isLoading, currentQuestionIndex, answers,
                 currentAnswer, answeredOnce, transcript, interim, refs, recs,
                 mic, ws, wsSent, calls, starts, stops,
                 sessFinals, sessInterim, nEvents, nRetreats>>

stopWSRecorder ==
  /\ mr' = IF mediaRecorderRef # NULL /\ mr[mediaRecorderRef] = "recording"
             THEN [mr EXCEPT ![mediaRecorderRef] = "flushing"] ELSE mr
  /\ wsSent' = IF wsRef # NULL
                 THEN [wsSent EXCEPT ![wsRef] =
                         Append(@, [data |-> "__end__", readyState |-> ws[wsRef]])]
                 ELSE wsSent
  /\ ws' = IF wsRef # NULL /\ ws[wsRef] \in {"connecting", "open"}
             THEN [ws EXCEPT ![wsRef] = "closing"] ELSE ws
  /\ mediaRecorderRef' = NULL
  /\ wsRef' = NULL
  /\ isUsingWsRef' = FALSE
  /\ isRecording' = FALSE
  /\ answeredOnce' = answeredOnce \cup {currentQuestionIndex}
  /\ toast' = "Recording stopped"
  /\ stoppedAt' = stoppedAt \cup {currentQuestionIndex}
  /\ restoppedAt' = restoppedAt \cup (stoppedAt \cap {currentQuestionIndex})
  /\ UNCHANGED <<env, upload, effect, origin, questions, isLoading, currentQuestionIndex, answers,
                 currentAnswer, transcript, interim, recognitionInstanceRef,
                 recs, mic, calls, starts, sessFinals,
                 sessInterim, nEvents, nRetreats>>

(* ------------------------ stopSTT, startSTT, toggle ------------------- *)
\* stopSTT that forgets to mark the index as answered
stopSTT_NoMark ==
  IF isUsingWsRef
    THEN stopWSRecorder
    ELSE /\ recs' = recStopped(recs, recognitionInstanceRef)
         /\ isRecording' = FALSE
         /\ toast' = "Recording stopped"
         /\ stoppedAt' = stoppedAt \cup {currentQuestionIndex}
         /\ restoppedAt' = restoppedAt \cup (stoppedAt \cap {currentQuestionIndex})
         /\ UNCHANGED <<env, upload, effect, origin, questions, isLoading, currentQuestionIndex,
                        answers, currentAnswer, answeredOnce, transcript,
                        interim, refs, mic, mr, ws, wsSent,
                        calls, starts, sessFinals,
                        sessInterim, nEvents, nRetreats>>

stopSTT ==
  IF isUsingWsRef
    THEN stopWSRecorder
    ELSE /\ recs' = recStopped(recs, recognitionInstanceRef)
         /\ isRecording' = FALSE
         /\ answeredOnce' = answeredOnce \cup {currentQuestionIndex}
         /\ toast' = "Recording stopped"
         /\ stoppedAt' = stoppedAt \cup {currentQuestionIndex}
         /\ restoppedAt' = restoppedAt \cup (stoppedAt \cap {currentQuestionIndex})
         /\ UNCHANGED <<env, upload, effect, origin, questions, isLoading, currentQuestionIndex,
                        answers, currentAnswer, transcript, interim, refs,
                        mic, mr, ws, wsSent, calls, starts,
                        sessFinals, sessInterim, nEvents, nRetreats>>

insecureAbort ==
  /\ toast' = "Insecure context"
  /\ UNCHANGED <<env, upload, effect, origin, react, refs, engines, history>>

\* startSTT that checks the context on the relay path only
startSTT_NoSecureCheck ==
  IF ~recognitionCtor
    THEN IF ~isSecureContextOk THEN insecureAbort ELSE startWSRecorder
    ELSE startNative

startSTT ==
  IF ~recognitionCtor
    THEN IF ~isSecureContextOk THEN insecureAbort ELSE startWSRecorder
    ELSE IF ~isSecureContextOk THEN insecureAbort ELSE startNative

toggleDisabled == currentQuestionIndex \in answeredOnce

\* toggleRecording without the answeredOnce guard
toggleRecording_NoGuard ==
  /\ ~isLoading
  /\ lastOp' = "toggleRecording"
  /\ IF isRecording THEN stopSTT ELSE startSTT

toggleRecording ==
  /\ ~isLoading
  /\ lastOp' = "toggleRecording"
  /\ IF toggleDisabled
       THEN /\ toast' = "none"
            /\ UNCHANGED <<env, upload, effect, origin, react, refs, engines, history>>
       ELSE IF isRecording THEN stopSTT ELSE startSTT

(* --------------------------- answer progression ----------------------- *)
\* the type with the boundary one question late
answerType_OffByOne(i) == IF i <= COUNT_ROLE THEN "role" ELSE "resume"

answerType(i) == IF i < COUNT_ROLE THEN "role" ELSE "resume"

newAnswer ==
  [question |-> QuestionAt(currentQuestionIndex),
   answer |-> IF finalAnswer(transcript, interim) # EMPTY
                THEN finalAnswer(transcript, interim) ELSE currentAnswer,
   type |-> answerType(currentQuestionIndex)]

updatedAnswers == Append(answers, newAnswer)

\* handleNext, taken while fewer than cap answers are stored
handleNextUpTo(cap) ==
  /\ ~isLoading
  /\ Len(answers) < cap
  /\ answers' = updatedAnswers
  /\ IF currentQuestionIndex < Len(questions) - 1
       THEN /\ currentQuestionIndex' = currentQuestionIndex + 1
            /\ isRecording' = FALSE
            /\ transcript' = EMPTY
            /\ interim' = EMPTY
            /\ transcriptFrom' = {}
            /\ interimFrom' = {}
            /\ answeredOnce' = answeredOnce \cup {currentQuestionIndex}
            /\ UNCHANGED calls
       ELSE /\ onNextCount' = onNextCount + 1
            /\ onNextLength' = Len(updatedAnswers)
            /\ UNCHANGED <<currentQuestionIndex, isRecording, transcript,
                           interim, answeredOnce, transcriptFrom,
                           interimFrom>>
  /\ toast' = "none"
  /\ lastOp' = "handleNext"
  /\ UNCHANGED <<env, upload, recAt, wsAt, effect, questions, isLoading, currentAnswer, refs, engines,
                 starts, stops, sessFinals, sessInterim, nEvents, nRetreats>>

handleNext == handleNextUpTo(MaxAnswers)

\* handlePrevious that drops the stored answers from the index it returns to
handlePreviousUpTo_Truncating(cap) ==
  /\ ~isLoading
  /\ IF currentQuestionIndex > 0
       THEN /\ nRetreats < cap
            /\ currentQuestionIndex' = currentQuestionIndex - 1
            /\ currentAnswer' = AnswerAt(currentQuestionIndex - 1)
            /\ answers' = SubSeq(answers, 1, currentQuestionIndex - 1)
            /\ nRetreats' = nRetreats + 1
       ELSE UNCHANGED <<currentQuestionIndex, currentAnswer, answers, nRetreats>>
  /\ toast' = "none"
  /\ lastOp' = "handlePrevious"
  /\ UNCHANGED <<env, upload, effect, origin, questions, isLoading, isRecording,
                 answeredOnce, transcript, interim, refs, engines, calls,
                 starts, stops, sessFinals, sessInterim,
                 nEvents>>

\* handlePrevious, moving the index back at most cap times
handlePreviousUpTo(cap) ==
  /\ ~isLoading
  /\ IF currentQuestionIndex > 0
       THEN /\ nRetreats < cap
            /\ currentQuestionIndex' = currentQuestionIndex - 1
            /\ currentAnswer' = AnswerAt(currentQuestionIndex - 1)
            /\ nRetreats' = nRetreats + 1
       ELSE UNCHANGED <<currentQuestionIndex, currentAnswer, nRetreats>>
  /\ toast' = "none"
  /\ lastOp' = "handlePrevious"
  /\ UNCHANGED <<env, upload, effect, origin, questions, isLoading, answers, isRecording,
                 answeredOnce, transcript, interim, refs, engines, calls,
                 starts, stops, sessFinals, sessInterim,
                 nEvents>>

handlePrevious == handlePreviousUpTo(MaxRetreats)

(* ------------------------------ behaviours ---------------------------- *)
Next ==
  \/ \E n \in 0..MaxQuestions : FetchResolved(1, n)
  \/ FetchRejected(1)
  \/ toggleRecording
  \/ handleNext
  \/ handlePrevious
  \/ \E r \in RecIds, results \in SingleResultEvents : RecOnResult(r, results)
  \/ \E r \in RecIds : RecOnError(r)
  \/ \E r \in RecIds : RecOnEnd(r)
  \/ \E s \in WsIds, outcome \in StartOutcomes : GetUserMediaResolved(s, outcome)
  \/ \E s \in WsIds : GetUserMediaRejected(s)
  \/ \E s \in WsIds : WsOnOpen(s)
  \/ \E s \in WsIds, frame \in WsFrames : WsOnMessage(s, frame)
  \/ \E s \in WsIds : WsOnClose(s)
  \/ \E s \in WsIds, size \in ChunkSizes : MrOnDataAvailable(s, size)
  \/ \E s \in WsIds : MrOnError(s)

Spec == Init /\ [][Next]_vars

\* The recognizer alone, with result events of several results each.
NextResults ==
  \/ \E n \in 0..MaxQuestions : FetchResolved(1, n)
  \/ toggleRecording
  \/ \E r \in RecIds, results \in ResultEvents : RecOnResult(r, results)
  \/ \E r \in RecIds : RecOnError(r)
  \/ \E r \in RecIds : RecOnEnd(r)

SpecResults == Init /\ [][NextResults]_vars

\* One capture attempt more than in Spec: capture sessions can overlap.
InitOverlap == InitWith(MaxRec + 1, MaxWs + 1)

SpecOverlap == InitOverlap /\ [][Next]_vars

\* A question list that holds role-based and resume-based questions, in a
\* browser with the Web Speech API on a secure page; one recognizer fewer
\* than in Spec, and result events that fill both transcript fields.
NavQuestions == COUNT_ROLE + 1
NavAnswers == NavQuestions + 1

final(text) == [isFinal |-> TRUE, transcript |-> text]
nonFinal(text) == [isFinal |-> FALSE, transcript |-> text]

NavEvents ==
  {<<final(Str("a"))>>, <<final(Str("a")), nonFinal(Str("a"))>>}

NextNav ==
  \/ FetchResolved(1, NavQuestions)
  \/ toggleRecording
  \/ handleNextUpTo(NavAnswers)
  \/ handlePrevious
  \/ \E r \in RecIds, results \in NavEvents : RecOnResult(r, results)

InitNav == InitWith(MaxRec - 1, MaxWs) /\ recognitionCtor /\ isSecureContextOk

SpecNav == InitNav /\ [][NextNav]_vars

\* The upload step, which precedes the interview.
NextUpload ==
  \/ \E file \in Files : handleFileUpload(file)
  \/ \E id \in ExtractIds, chunks \in ChunkCounts : ExtractResolved(id, chunks)
  \/ \E id \in ExtractIds : ExtractRejected(id)
  \/ handleSubmit

SpecUpload == Init /\ [][NextUpload]_vars

\* The question retrieval with its effect re-run and the component
\* unmounted; a component that is not mounted receives no clicks.
NextFetch ==
  \/ \E q \in FetchIds, n \in 0..MaxQuestions : FetchResolved(q, n)
  \/ \E q \in FetchIds : FetchRejected(q)
  \/ EffectRerun
  \/ Unmount
  \/ mounted /\ toggleRecording
  \/ mounted /\ handleNext
  \/ mounted /\ handlePrevious

SpecFetch == Init /\ [][NextFetch]_vars

\* Going back and forth over a list of more than one question, in a browser
\* with the Web Speech API on a secure page: one question, one retreat and
\* two answers more than in Spec.
BackQuestions == MaxQuestions + 1
BackAnswers == MaxAnswers + 2
BackRetreats == MaxRetreats + 1

NextBack ==
  \/ FetchResolved(1, BackQuestions)
  \/ toggleRecording
  \/ handleNextUpTo(BackAnswers)
  \/ handlePreviousUpTo(BackRetreats)
  \/ \E r \in RecIds, results \in NavEvents : RecOnResult(r, results)
  \/ \E r \in RecIds : RecOnEnd(r)

InitBack == Init /\ recognitionCtor /\ isSecureContextOk

SpecBack == InitBack /\ [][NextBack]_vars

(* ============================== claims ================================ *)

(* C1: onNext is invoked at most once, and the sequence it receives is as   *)
(* long as the question list.                                               *)
C1_OnNextOnceWithOneAnswerPerQuestion ==
  /\ onNextCount <= 1
  /\ onNextCount >= 1 => onNextLength = Len(questions)

(* C2: while the current question index is i, at most one recording ever    *)
(* starts (no index sees a second Idle -> Recording step).                  *)
C2_AtMostOneRecordingPerIndex == restartedAt = {}

(* C2, amended: at most one recording is ended by a manual stop at an       *)
(* index, and that stop marks the index as answered; a recording ended by   *)
(* an engine or socket event leaves the index unmarked.                     *)
C2_AtMostOneManualStopPerIndex ==
  /\ restoppedAt = {}
  /\ stoppedAt \subseteq answeredOnce

C2_Witness == \E i \in restartedAt : i \in stoppedAt

(* C3: within one recognizer session the committed transcript is the        *)
(* space-joined concatenation of the (trimmed, non-blank) final fragments   *)
(* in arrival order, and the interim transcript is the text of the non-     *)
(* final fragments of the latest event.                                     *)
RECURSIVE spaceJoined(_)
spaceJoined(fragments) ==
  IF fragments = <<>> THEN EMPTY
  ELSE LET rest == spaceJoined(Tail(fragments))
           first == trim(Head(fragments))
       IN IF first = EMPTY THEN rest
          ELSE IF rest = EMPTY THEN first
          ELSE first \o Str(" ") \o rest

RECURSIVE concatenated(_)
concatenated(fragments) ==
  IF fragments = <<>> THEN EMPTY
  ELSE Head(fragments) \o concatenated(Tail(fragments))

C3_TranscriptIsSpaceJoinedFinals ==
  (recognitionInstanceRef # NULL /\ recs[recognitionInstanceRef] = "running")
    => /\ transcript = spaceJoined(sessFinals)
       /\ interim = trim(concatenated(sessInterim))

(* C4: in no Idle state is a media recorder still capturing or a socket     *)
(* still open.                                                              *)
C4_IdleHoldsNoRecorderNorSocket ==
  ~isRecording => \A s \in WsIds : mr[s] # "recording" /\ ws[s] # "open"

(* C5: at most one capture session (a running recognizer, or a relay whose  *)
(* recorder captures or whose socket is open) is live at any time.          *)
LiveSessions ==
  {<<"native", r>> : r \in {x \in RecIds : recs[x] = "running"}}
    \cup {<<"relay", s>> : s \in {x \in WsIds : mr[x] = "recording" \/ ws[x] = "open"}}

C5_AtMostOneLiveSession == Cardinality(LiveSessions) <= 1

(* C6: a start attempt is decided by (recognitionCtor, isSecureContextOk)   *)
(* alone: insecure aborts with an error and changes nothing, present and    *)
(* secure creates a recognizer, absent and secure begins a relay attempt.   *)
StartAttempt ==
  /\ lastOp' = "toggleRecording"
  /\ currentQuestionIndex \notin answeredOnce
  /\ ~isRecording

AbortsUnchanged ==
  /\ toast' = "Insecure context"
  /\ UNCHANGED <<react, refs, engines>>

StartsNative ==
  /\ Created(recs') = Created(recs) \cup {recognitionInstanceRef'}
  /\ recognitionInstanceRef' \notin Created(recs)
  /\ recs'[recognitionInstanceRef'] = "running"
  /\ isRecording'
  /\ UNCHANGED <<mic, mr, ws>>

StartsRelay ==
  /\ \E s \in WsIds : /\ Created(mic') = Created(mic) \cup {s}
                      /\ s \notin Created(mic)
                      /\ mic'[s] = "asking"
  /\ UNCHANGED recs

C7_ToggleOnAnsweredIndexIsNoOp ==
  [][(lastOp' = "toggleRecording" /\ currentQuestionIndex \in answeredOnce)
       => (toast' = "none" /\ UNCHANGED <<react, refs, engines>>)]_vars

C7_Witness ==
  /\ lastOp = "toggleRecording"
  /\ toast = "none"
  /\ recognitionCtor /\ isSecureContextOk
  /\ currentQuestionIndex \in answeredOnce

(* C8: when a relay start fails (microphone refused, a constructor threw,  *)
(* the connection was never established), the failing step reports an       *)
(* error, the state is Idle, and no recorder, stream or socket of the       *)
(* attempt is left running or referenced.                                   *)
StartFailed(s) ==
  \/ mic[s] = "denied"
  \/ mr[s] = "threw"
  \/ ws[s] \in {"threw", "failed"}

C8_FailedStartLeavesNothing ==
  [][\A s \in WsIds :
       (~StartFailed(s) /\ StartFailed(s)') =>
          /\ toast' \in ErrorToasts
          /\ ~isRecording'
          /\ mediaRecorderRef' # s
          /\ wsRef' # s
          /\ mic'[s] # "live"
          /\ mr'[s] # "recording"]_vars

(* C9: on every connection the chunks are sent while it is open and before  *)
(* the token, the token is the last thing sent, and a manual stop sends the *)
(* token on the connection it closes.                                       *)
C9_ChunksThenTokenThenClose ==
  \A s \in WsIds :
    \A k \in DOMAIN wsSent[s] :
      /\ wsSent[s][k].readyState = "open"
      /\ wsSent[s][k].data = "__end__" => k = Len(wsSent[s])

(* C10: an advance at index i appends exactly one answer: to questions[i],  *)
(* with the trimmed "transcript interim" text or else the retained answer,  *)
(* of type role below the role-question count and resume from it on.        *)
joinedText ==
  trim(IF interim # EMPTY THEN transcript \o Str(" ") \o interim ELSE transcript)

displayed ==
  IF finalAnswer(transcript, interim) # EMPTY
    THEN finalAnswer(transcript, interim) ELSE currentAnswer

(* C11: after a retreat from an index i > 0 the answer field shows the      *)
(* answer stored for question i - 1 (empty if there is none), whatever the  *)
(* transcript and the interim text were.                                    *)
C11_RetreatShowsTheStoredAnswer ==
  [][(lastOp' = "handlePrevious" /\ currentQuestionIndex > 0)
       => displayed' = AnswerAt(currentQuestionIndex - 1)]_vars

(* C12: handlePrevious never changes the answer sequence, and at index 0    *)
(* it changes no state at all.                                              *)
C12_RetreatKeepsTheAnswers ==
  [][lastOp' = "handlePrevious" =>
       /\ answers' = answers
       /\ currentQuestionIndex = 0 =>
            (toast' = "none" /\ UNCHANGED <<react, refs, engines>>)]_vars

C12_Witness ==
  /\ lastOp = "handlePrevious"
  /\ nRetreats > 0
  /\ currentQuestionIndex = 0
  /\ answers # <<>>
  /\ currentAnswer # EMPTY

(* C13: as long as the answers were not handed over, entry k of the answer  *)
(* sequence is the answer to questions[k], so that no index has two         *)
(* entries, also after a retreat and a second advance.                      *)
C13_OneEntryPerQuestion ==
  onNextCount = 0 =>
    \A k \in DOMAIN answers :
      k \in DOMAIN questions /\ answers[k].question = questions[k]

(* C17: the response of a retrieval whose effect run was cleaned up changes *)
(* neither the question list nor the loading flag; a failure of a run that  *)
(* was not cleaned up empties the list and ends loading; and a retrieval is *)
(* only ever begun by an effect run, never by a response.                   *)
Returned(q) == fetchQs[q] = "awaiting" /\ fetchQs'[q] = "returned"

ResponseHandled(q) ==
  /\ cancelled[q] => UNCHANGED <<questions, isLoading>>
  /\ (~cancelled[q] /\ lastOp' = "fetchQs catch") =>
       (questions' = <<>> /\ ~isLoading')
  /\ Created(fetchQs') = Created(fetchQs)

BegunByTheEffect ==
  Created(fetchQs') # Created(fetchQs) => (mounted /\ cancelled'[currentRun])

C17_LateResponseIsDiscarded ==
  [][(\A q \in FetchIds : Returned(q) => ResponseHandled(q))
       /\ BegunByTheEffect]_vars

C17_Witness ==
  /\ lastOp = "fetchQs catch"
  /\ \E q \in FetchIds : cancelled[q] /\ fetchQs[q] = "returned"
  /\ \E q \in FetchIds : ~cancelled[q] /\ fetchQs[q] = "returned"
  /\ questions = <<>>
  /\ ~isLoading

(* C18: after a handler reported an error of the recording (recognizer     *)
(* error, recorder error, failed start) the state is Idle, and a toggle     *)
(* that follows on an index not marked as answered starts a new session.    *)
RecordingErrors ==
  {"Speech recognition error", "Recording failed", "Failed to start recording"}

RetryAfterError ==
  /\ toast \in RecordingErrors
  /\ lastOp' = "toggleRecording"
  /\ ~toggleDisabled

C18_ErrorAllowsRetry ==
  [][/\ toast' \in RecordingErrors => ~isRecording'
     /\ RetryAfterError => (StartsNative \/ StartsRelay)]_vars

(* C19: isRecording is true exactly when a capture engine is running: a   *)
(* recognizer that was started and has neither been stopped nor ended, or   *)
(* a media recorder that is recording.                                      *)
EngineRunning ==
  \/ \E r \in RecIds : recs[r] = "running"
  \/ \E s \in WsIds : mr[s] = "recording"

C19_FlagFollowsTheEngine == isRecording <=> EngineRunning

(* C20: the text that an advance at index i stores as the answer was heard *)
(* by capture sessions that were started while i was the current index.    *)
C20_AnswerHeardAtItsQuestion ==
  [][(lastOp' = "handleNext" /\ finalAnswer(transcript, interim) # EMPTY)
       => (transcriptFrom \cup interimFrom) \subseteq {currentQuestionIndex}]_vars

(* C14: when an extraction call fails, the selected file, the session      *)
(* identifier and the status text are what they were before that upload     *)
(* began, and the processing flag is cleared.                               *)
Failed(id) == extracts[id] = "pending" /\ extracts'[id] = "failed"

C14_FailedUploadLeavesNoTrace ==
  [][\A id \in ExtractIds :
       Failed(id) =>
         /\ <<resumeFile', sessionId', resumeContent'>> = before[id]
         /\ ~isProcessing']_vars

(* C15: onNext is only ever called with non-empty status text, which some   *)
(* successful extraction call produced; handleSubmit with empty status text *)
(* reports an error, calls nothing and changes nothing.                     *)
ProducedBySuccess(text) ==
  \E id \in ExtractIds, chunks \in ChunkCounts :
    extracts[id] = "ok" /\ text = statusText(chunks, id)

C15_SubmitNeedsAnExtraction ==
  [][/\ \A s \in submitted' :
          s.resumeContent # EMPTY /\ ProducedBySuccess(s.resumeContent)'
     /\ (lastOp' = "handleSubmit" /\ resumeContent = EMPTY) =>
          /\ toast' = "Resume required"
          /\ UNCHANGED <<uploadState, extracts, submitted>>]_vars

C15_Witness ==
  /\ lastOp = "handleSubmit"
  /\ submitted # {}
  /\ \E id \in ExtractIds : extracts[id] = "failed"

(* C16: handleFileUpload with a file whose type is empty or does not hold   *)
(* "pdf" reports an error, begins no extraction call, takes no identifier   *)
(* and leaves resumeFile, resumeContent, sessionId and isProcessing alone.  *)
hasPdfType(file) ==
  \E i \in 1..(Len(file.type) - 2) : SubSeq(file.type, i, i + 2) = PDF

C16_NonPdfIsRejected ==
  [][(lastOp' = "handleFileUpload" /\ ~hasPdfType(lastFile')) =>
       /\ toast' = "Invalid file type"
       /\ UNCHANGED <<uploadState, extracts>>]_vars

C16_Witness ==
  /\ lastOp = "handleFileUpload"
  /\ toast = "Invalid file type"
  /\ lastFile.type # EMPTY
  /\ resumeFile # NoFile /\ isProcessing

(* C21: when the submit button is enabled and handleSubmit calls onNext,   *)
(* the sessionId it passes is the identifier of the successful extraction   *)
(* call that produced the resumeContent it passes.                          *)
C21_SessionIdOfTheStatusText ==
  [][(lastOp' = "handleSubmit" /\ ~submitDisabled) =>
       \E id \in ExtractIds, chunks \in ChunkCounts :
         /\ extracts[id] = "ok"
         /\ resumeContent = statusText(chunks, id)
         /\ sessionId = <<id>>
         /\ [resumeContent |-> resumeContent, sessionId |-> sessionId]
              \in submitted']_vars

(* C22: when an advance at index i falls back on the retained answer, that  *)
(* answer is empty or is an answer stored for question i.                   *)
StoredFor(i, text) ==
  \E k \in DOMAIN answers :
    answers[k].question = QuestionAt(i) /\ answers[k].answer = text

C22_FallbackIsTheQuestionsOwnAnswer ==
  [][(lastOp' = "handleNext" /\ finalAnswer(transcript, interim) = EMPTY) =>
       (currentAnswer = EMPTY \/ StoredFor(currentQuestionIndex, currentAnswer))]_vars

====
